---- MODULE Spec2Model ----
(***************************************************************************)
(* Model of knaps_helper.py: the benchmarking driver around KnapsackTree.  *)
(* Text is a sequence of one-character strings, a table is a sequence of   *)
(* rows, a row a sequence of fields.  Console output (print) is not part   *)
(* of the modelled state.                                                  *)
(***************************************************************************)
EXTENDS Integers, Sequences, FiniteSets, TLC

VARIABLES pc, clock, range_it, relWeight, t0, t1, command, data, parsed_data,
          filename, fs, dirs, log_file,
          d_lines, li, skip, headers, p_parsed_data, line, i_data,
          arg

vars == <<pc, clock, range_it, relWeight, t0, t1, command, data, parsed_data,
          filename, fs, dirs, log_file,
          d_lines, li, skip, headers, p_parsed_data, line, i_data, arg>>

driverVars == <<clock, range_it, relWeight, t0, t1, command, parsed_data,
                filename, fs, dirs, log_file>>

parseVars == <<d_lines, li, skip, headers, p_parsed_data, line, i_data>>

(* ---------------------------------------------------------------------- *)
(* Bounds of the model                                                    *)
(* ---------------------------------------------------------------------- *)
\* longest input text of the parser, in lines
MaxLines == 3
\* most rows of a table handed to save_json
MaxJsonRows == 2
\* most rows of a table handed to save_xlsx, the tall one apart
MaxXRows == 2
\* rows of the tall table handed to save_xlsx
TallRows == 11

(* ---------------------------------------------------------------------- *)
(* Constants of the program                                               *)
(* ---------------------------------------------------------------------- *)
n == 25
iterCount == 100
m == 128
stage == 3
processorCount == 1
RangeStart == 10
RangeStop == 110
RangeStep == 10
result_folder == <<".", "/", "t", "e", "m", "p", "_", "r", "e", "s", "u", "l", "t", "_", "d", "a", "t", "a">>
TempFile == <<"t", "e", "m", "p", ".", "p", "i", "p", "e", "f", "i", "l", "e">>

(* ---------------------------------------------------------------------- *)
(* Python string and list primitives                                      *)
(* ---------------------------------------------------------------------- *)
NL == "\n"
BAR == "|"
ITER == <<"I", "T", "E", "R">>
SPACE == <<" ">>
IPREFIX == <<"I", ":">>
EMPTY == <<>>

\* a global name that has no value yet, and one bound to a value
Undefined == [bound |-> FALSE, value |-> <<>>]
Bound(v) == [bound |-> TRUE, value |-> v]

\* pat in s
Contains(s, pat) ==
    \E i \in 1..(Len(s) - Len(pat) + 1) : SubSeq(s, i, i + Len(pat) - 1) = pat

\* s.split(sep) for a one-character separator
RECURSIVE split(_, _)
split(s, sep) ==
    IF \A i \in 1..Len(s) : s[i] # sep
    THEN <<s>>
    ELSE LET i == CHOOSE k \in 1..Len(s) :
                     s[k] = sep /\ \A q \in 1..(k - 1) : s[q] # sep
         IN <<SubSeq(s, 1, i - 1)>> \o split(SubSeq(s, i + 1, Len(s)), sep)

\* seq[:-1] without the slice: the mutant of DropLast
KeepLast(seq) == seq

\* seq[:-1]
DropLast(seq) == IF Len(seq) = 0 THEN seq ELSE SubSeq(seq, 1, Len(seq) - 1)

\* s.replace(old, new), old not empty: leftmost non-overlapping occurrences
RECURSIVE replace(_, _, _)
replace(s, old, new) ==
    IF Len(s) < Len(old) THEN s
    ELSE IF SubSeq(s, 1, Len(old)) = old
         THEN new \o replace(SubSeq(s, Len(old) + 1, Len(s)), old, new)
         ELSE <<s[1]>> \o replace(Tail(s), old, new)

\* str(num) for num >= 0
Digits == <<"0", "1", "2", "3", "4", "5", "6", "7", "8", "9">>
RECURSIVE Decimal(_)
Decimal(num) ==
    IF num < 10 THEN <<Digits[num + 1]>>
    ELSE Decimal(num \div 10) \o <<Digits[(num % 10) + 1]>>

(* ---------------------------------------------------------------------- *)
(* parse_data                                                             *)
(* ---------------------------------------------------------------------- *)
\* [x.replace(" ", "") for x in line.split("|")[:-1]]
Fields(l) ==
    LET segs == DropLast(split(l, BAR))
    IN [j \in 1..Len(segs) |-> replace(segs[j], SPACE, EMPTY)]

\* parsed_data = list() with the header list already in it: the mutant of
\* NewParsedData
NewParsedDataWithHeader == << <<>> >>

\* parsed_data = list()
NewParsedData == <<>>

\* the row test of the mutant that keeps every row
NeverEmpty(row) == FALSE

\* len(i_data) == 0
IsEmpty(row) == Len(row) = 0

\* entry of parse_data: the locals before the loop
ParseCall ==
    /\ pc = "parse_call"
    /\ skip' = TRUE
    /\ headers' = <<>>
    /\ p_parsed_data' = NewParsedData
    /\ d_lines' = split(data, NL)
    /\ li' = 0
    /\ pc' = "parse_for"
    /\ UNCHANGED <<driverVars, data, line, i_data, arg>>

\* one loop iteration on a line that contains the marker
ParseHeader ==
    /\ pc = "parse_for"
    /\ li < Len(d_lines)
    /\ LET l == d_lines[li + 1] IN
        /\ Contains(l, ITER)
        /\ line' = l
        /\ skip' = FALSE
        /\ headers' = Fields(l)
        /\ p_parsed_data' = Append(p_parsed_data, Fields(l))
    /\ li' = li + 1
    /\ UNCHANGED <<driverVars, pc, data, d_lines, i_data, arg>>

\* one loop iteration on a line before the header
ParseSkip ==
    /\ pc = "parse_for"
    /\ li < Len(d_lines)
    /\ LET l == d_lines[li + 1] IN
        /\ ~Contains(l, ITER)
        /\ skip
        /\ line' = l
    /\ li' = li + 1
    /\ UNCHANGED <<driverVars, pc, data, d_lines, skip, headers, p_parsed_data,
                   i_data, arg>>

\* one loop iteration on a line after the header that gives no field
ParseBlank ==
    /\ pc = "parse_for"
    /\ li < Len(d_lines)
    /\ LET l == d_lines[li + 1] IN
        /\ ~Contains(l, ITER)
        /\ ~skip
        /\ IsEmpty(Fields(l))
        /\ line' = l
        /\ i_data' = Fields(l)
    /\ li' = li + 1
    /\ UNCHANGED <<driverVars, pc, data, d_lines, skip, headers, p_parsed_data,
                   arg>>

\* one loop iteration on a line after the header that gives a row
ParseRow ==
    /\ pc = "parse_for"
    /\ li < Len(d_lines)
    /\ LET l == d_lines[li + 1]
           row == Fields(l)
           stripped == IF Len(row) = 0 THEN row
                       ELSE [row EXCEPT ![1] = replace(row[1], IPREFIX, EMPTY)]
       IN
        /\ ~Contains(l, ITER)
        /\ ~skip
        /\ ~IsEmpty(row)
        /\ line' = l
        /\ i_data' = stripped
        /\ p_parsed_data' = Append(p_parsed_data, stripped)
    /\ li' = li + 1
    /\ UNCHANGED <<driverVars, pc, data, d_lines, skip, headers, arg>>

\* the loop is exhausted: return parsed_data
ParseReturn ==
    /\ pc = "parse_for"
    /\ li = Len(d_lines)
    /\ pc' = "parse_ret"
    /\ UNCHANGED <<driverVars, parseVars, data, arg>>


(* ---------------------------------------------------------------------- *)
(* The file system                                                        *)
(* ---------------------------------------------------------------------- *)
\* no file at all
NoFiles == [p \in {} |-> <<>>]

\* the file at path holds content, whatever it held before
WriteFile(files, path, content) ==
    [p \in (DOMAIN files) \cup {path} |-> IF p = path THEN content ELSE files[p]]

\* os.makedirs(path): the directory and the directories above it
makedirs(path) ==
    {path} \cup { SubSeq(path, 1, i - 1) : i \in { k \in 2..Len(path) : path[k] = "/" } }

(* ---------------------------------------------------------------------- *)
(* save_json                                                              *)
(* ---------------------------------------------------------------------- *)
\* the escape of one character in a JSON string
EscapeChar(c) ==
    CASE c = "\"" -> <<"\\", "\"">>
      [] c = "\\" -> <<"\\", "\\">>
      [] c = "\n" -> <<"\\", "n">>
      [] c = "\r" -> <<"\\", "r">>
      [] c = "\t" -> <<"\\", "t">>
      [] OTHER -> <<c>>

RECURSIVE EscapeAll(_)
EscapeAll(s) ==
    IF Len(s) = 0 THEN <<>> ELSE EscapeChar(s[1]) \o EscapeAll(Tail(s))

\* json.dumps of a string
dumps_str(s) == <<"\"">> \o EscapeAll(s) \o <<"\"">>

\* json.dumps of a list, its items already encoded: "[a, b, c]"
RECURSIVE JoinItems(_)
JoinItems(items) ==
    IF Len(items) = 0 THEN <<>>
    ELSE IF Len(items) = 1 THEN items[1]
    ELSE items[1] \o <<",", " ">> \o JoinItems(Tail(items))

dumps_list(items) == <<"[">> \o JoinItems(items) \o <<"]">>

\* json.dumps of a table
json_dumps(table) ==
    dumps_list([r \in 1..Len(table) |->
        dumps_list([j \in 1..Len(table[r]) |-> dumps_str(table[r][j])])])

\* result_folder + "/json/"
json_folder(folder) == folder \o <<"/", "j", "s", "o", "n", "/">>

\* result_folder + filename + ".json"
json_path(folder, name) == json_folder(folder) \o name \o <<".", "j", "s", "o", "n">>

\* save_json(result_folder, data, filename): the directory, then the file
\* opened for writing, then json.dump(parsed_data, outfile), which reads the
\* global parsed_data and not the parameter d; with no such global the name
\* lookup raises after the file was opened.  Ends at okpc when it returns.
save_json(folder, d, name, okpc) ==
    /\ dirs' = IF json_folder(folder) \in dirs THEN dirs
               ELSE dirs \cup makedirs(json_folder(folder))
    /\ IF ~parsed_data.bound
       THEN /\ fs' = WriteFile(fs, json_path(folder, name), <<>>)
            /\ pc' = "aborted"
       ELSE /\ fs' = WriteFile(fs, json_path(folder, name), json_dumps(parsed_data.value))
            /\ pc' = okpc

(* ---------------------------------------------------------------------- *)
(* save_xlsx                                                              *)
(* ---------------------------------------------------------------------- *)
\* the characters of codes 65..93
Ascii65 == <<"A", "B", "C", "D", "E", "F", "G", "H", "I", "J", "K", "L", "M", "N", "O", "P", "Q", "R", "S", "T", "U", "V", "W", "X", "Y", "Z", "[", "\\", "]">>

\* chr(code) for the codes 65..93
chr(code) == Ascii65[code - 64]

\* the cell key with the row counted from 0: the mutant of CellKey
CellKeyRowFromZero(i, j) == <<chr(j + 65)>> \o Decimal(i)

\* f'{chr(j+65)}{i+1}', i and j counted from 0
CellKey(i, j) == <<chr(j + 65)>> \o Decimal(i + 1)

\* a key the worksheet accepts: column letters, then a row number from 1
ValidKey(key) ==
    /\ key[1] \in { Ascii65[k] : k \in 1..26 }
    /\ Tail(key) # <<"0">>

\* the positions of a table, counted from 0, in the order of the two loops
Positions(table) ==
    { <<i, j>> \in (0..(Len(table) - 1)) \X (0..26) : j < Len(table[i + 1]) }

Before(p, q) == p[1] < q[1] \/ (p[1] = q[1] /\ p[2] < q[2])

\* some assignment of the loops is refused by the worksheet
xlsx_raises(table) ==
    \E p \in Positions(table) : ~ValidKey(CellKey(p[1], p[2]))

\* the worksheet after the two loops: each cell holds what was assigned to
\* it last
Worksheet(table) ==
    LET keys == { CellKey(p[1], p[2]) : p \in Positions(table) }
        last(key) == CHOOSE p \in Positions(table) :
                        /\ CellKey(p[1], p[2]) = key
                        /\ \A q \in Positions(table) :
                               CellKey(q[1], q[2]) = key => (q = p \/ Before(q, p))
    IN [key \in keys |-> table[last(key)[1] + 1][last(key)[2] + 1]]

\* result_folder + "/xlsx/"
xlsx_folder(folder) == folder \o <<"/", "x", "l", "s", "x", "/">>

\* result_folder + filename + ".xlsx"
xlsx_path(folder, name) == xlsx_folder(folder) \o name \o <<".", "x", "l", "s", "x">>

\* save_xlsx(result_folder, data, filename): the directory, a new workbook,
\* the cells, then wb.save; a refused cell key raises before the save.
\* Ends at okpc when it returns.
save_xlsx(folder, d, name, okpc) ==
    /\ dirs' = IF xlsx_folder(folder) \in dirs THEN dirs
               ELSE dirs \cup makedirs(xlsx_folder(folder))
    /\ IF xlsx_raises(d)
       THEN /\ fs' = fs
            /\ pc' = "aborted"
       ELSE /\ fs' = WriteFile(fs, xlsx_path(folder, name), Worksheet(d))
            /\ pc' = okpc

(* ---------------------------------------------------------------------- *)
(* Inputs of the parser                                                   *)
(* ---------------------------------------------------------------------- *)
LinePool == <<
    <<"x">>,
    <<>>,
    <<" ", "I", "T", "E", "R", " ", "|", " ", "V", " ", "a", "|">>,
    <<"I", "T", "E", "R">>,
    <<"I", "T", "E", "R", "|">>,
    <<"I", ":", "4", " ", "|", "\t", "7", " ", "|">>,
    <<"I", ":", "1", "|", " ", "b", " ", "c", " ", "|">>,
    <<"a", "I", ":", "I", ":", "|", "I", ":", "2", "|">>,
    <<"I", ":", "I", "T", "E", "R", "|", "5", "|">>,
    <<"I", ":", "3", "|">>,
    <<"|">> >>

RECURSIVE JoinLines(_)
JoinLines(ls) ==
    IF Len(ls) = 0 THEN <<>>
    ELSE IF Len(ls) = 1 THEN ls[1]
    ELSE ls[1] \o <<NL>> \o JoinLines(Tail(ls))

LineSeqs == UNION { [1..len -> 1..Len(LinePool)] : len \in 0..MaxLines }

Texts ==
    { JoinLines([k \in 1..Len(ix) |-> LinePool[ix[k]]]) \o tail :
        ix \in LineSeqs, tail \in {<<>>, <<NL>>} }

InitParse ==
    /\ pc = "parse_call"
    /\ data \in Texts
    /\ clock = 0 /\ range_it = 0 /\ relWeight = 0 /\ t0 = 0 /\ t1 = 0
    /\ command = <<>> /\ parsed_data = Undefined /\ filename = <<>>
    /\ fs = NoFiles /\ dirs = {} /\ log_file = <<>>
    /\ d_lines = <<>> /\ li = 0 /\ skip = TRUE /\ headers = <<>>
    /\ p_parsed_data = <<>> /\ line = <<>> /\ i_data = <<>>
    /\ arg = <<>>

NextParse ==
    \/ ParseCall
    \/ ParseHeader
    \/ ParseSkip
    \/ ParseBlank
    \/ ParseRow
    \/ ParseReturn

SpecParse == InitParse /\ [][NextParse]_vars


(* ---------------------------------------------------------------------- *)
(* save_json and save_xlsx called on their own                            *)
(* ---------------------------------------------------------------------- *)
JsonRowPool == {
    <<>>,
    << <<"a">> >>,
    << <<"I", "T", "E", "R">>, <<"V", "\"", "\\">> >>,
    << <<>>, <<"\t", ",", " ">>, <<"b">> >>,
    << <<"0">>, <<"1">> >> }

JsonTables == UNION { [1..len -> JsonRowPool] : len \in 0..MaxJsonRows }

InitJson ==
    /\ pc = "call_save_json"
    /\ arg \in JsonTables
    /\ parsed_data \in { Bound(t) : t \in JsonTables } \cup {Undefined}
    /\ filename = <<"f">>
    /\ fs = NoFiles /\ dirs = {}
    /\ clock = 0 /\ range_it = 0 /\ relWeight = 0 /\ t0 = 0 /\ t1 = 0
    /\ command = <<>> /\ data = <<>> /\ log_file = <<>>
    /\ d_lines = <<>> /\ li = 0 /\ skip = TRUE /\ headers = <<>>
    /\ p_parsed_data = <<>> /\ line = <<>> /\ i_data = <<>>

\* save_json(result_folder, arg, filename)
CallSaveJson ==
    /\ pc = "call_save_json"
    /\ save_json(result_folder, arg, filename, "json_ret")
    /\ UNCHANGED <<clock, range_it, relWeight, t0, t1, command, data,
                   parsed_data, filename, log_file, parseVars, arg>>

NextJson == CallSaveJson

SpecJson == InitJson /\ [][NextJson]_vars

XWidths == {0, 1, 2, 26, 27}

\* the field at row i, column j of a generated table: the same everywhere,
\* or one that tells the positions apart
FillValue(fill, i, j) ==
    IF fill = "same" THEN <<"a">> ELSE Decimal(i) \o <<",">> \o Decimal(j)

MakeTable(widths, fill) ==
    [i \in 1..Len(widths) |-> [j \in 1..widths[i] |-> FillValue(fill, i, j)]]

XTables ==
    { MakeTable(w, fill) :
        w \in (UNION { [1..len -> XWidths] : len \in 0..MaxXRows })
              \cup { [i \in 1..TallRows |-> 2] },
        fill \in {"same", "position"} }

InitXlsx ==
    /\ pc = "call_save_xlsx"
    /\ arg \in XTables
    /\ parsed_data = Undefined
    /\ filename = <<"f">>
    /\ fs = NoFiles /\ dirs = {}
    /\ clock = 0 /\ range_it = 0 /\ relWeight = 0 /\ t0 = 0 /\ t1 = 0
    /\ command = <<>> /\ data = <<>> /\ log_file = <<>>
    /\ d_lines = <<>> /\ li = 0 /\ skip = TRUE /\ headers = <<>>
    /\ p_parsed_data = <<>> /\ line = <<>> /\ i_data = <<>>

\* save_xlsx(result_folder, arg, filename)
CallSaveXlsx ==
    /\ pc = "call_save_xlsx"
    /\ save_xlsx(result_folder, arg, filename, "xlsx_ret")
    /\ UNCHANGED <<clock, range_it, relWeight, t0, t1, command, data,
                   parsed_data, filename, log_file, parseVars, arg>>

NextXlsx == CallSaveXlsx

SpecXlsx == InitXlsx /\ [][NextXlsx]_vars

(* ---------------------------------------------------------------------- *)
(* The sweep of stage 3.1                                                 *)
(* ---------------------------------------------------------------------- *)
\* what one run of the command can give: its output and how long it took.
\* A command that cannot be started prints nothing on its standard output.
RunOutcomes == {
    [out |-> <<"x", "\n", " ", "I", "T", "E", "R", " ", "|", " ", "V", " ", "a", "|", "\n", "I", ":", "4", " ", "|", "\t", "7", " ", "|", "\n">>, dur |-> 2],
    [out |-> <<>>, dur |-> 1] }

\* the file name that leaves the sweep value out: the mutant of FileName
FileNameWithoutValue(stg, value) ==
    <<"r", "e", "s", "u", "l", "t", "-">> \o Decimal(stg) \o <<"-", "1", "c", "o", "r", "e">>

\* f"result-{stage}-{relWeight}-1core"
FileName(stg, value) ==
    <<"r", "e", "s", "u", "l", "t", "-">> \o Decimal(stg) \o <<"-">> \o Decimal(value) \o <<"-", "1", "c", "o", "r", "e">>

\* f"./KnapsackTree -n {n} -i {iterCount} -p {processorCount} -m {m} -r {relWeight} -o"
Command(value) ==
    <<".", "/", "K", "n", "a", "p", "s", "a", "c", "k", "T", "r", "e", "e", " ", "-", "n", " ">> \o Decimal(n) \o <<" ", "-", "i", " ">> \o Decimal(iterCount)
    \o <<" ", "-", "p", " ">> \o Decimal(processorCount) \o <<" ", "-", "m", " ">> \o Decimal(m)
    \o <<" ", "-", "r", " ">> \o Decimal(value) \o <<" ", "-", "o">>

\* f"Stage {stage} Finished! Elapsed: {elapsedTime} s!\n"
LogLine(stg, elapsed) ==
    <<"S", "t", "a", "g", "e", " ">> \o Decimal(stg) \o <<" ", "F", "i", "n", "i", "s", "h", "e", "d", "!", " ", "E", "l", "a", "p", "s", "e", "d", ":", " ">> \o Decimal(elapsed)
    \o <<" ", "s", "!", "\n">>

Init ==
    /\ pc = "for"
    /\ range_it = RangeStart
    /\ relWeight = 0
    /\ clock = 0 /\ t0 = 0 /\ t1 = 0
    /\ command = <<>> /\ data = <<>>
    /\ parsed_data = Undefined
    /\ filename = <<>>
    /\ fs = NoFiles /\ dirs = {}
    /\ log_file = <<>>
    /\ d_lines = <<>> /\ li = 0 /\ skip = TRUE /\ headers = <<>>
    /\ p_parsed_data = <<>> /\ line = <<>> /\ i_data = <<>>
    /\ arg = <<>>

\* for relWeight in range(10, 110, 10): the next value
ForNext ==
    /\ pc = "for"
    /\ range_it < RangeStop
    /\ relWeight' = range_it
    /\ range_it' = range_it + RangeStep
    /\ pc' = "run"
    /\ UNCHANGED <<clock, t0, t1, command, data, parsed_data, filename, fs,
                   dirs, log_file, parseVars, arg>>

\* the range is exhausted
ForExit ==
    /\ pc = "for"
    /\ range_it >= RangeStop
    /\ pc' = "close"
    /\ UNCHANGED <<driverVars, parseVars, data, arg>>

\* t0, the command line, and run_command(command): the output of the command
\* goes to temp.pipefile, which is read and left in place
RunCommand ==
    /\ pc = "run"
    /\ t0' = clock
    /\ command' = Command(relWeight)
    /\ \E o \in RunOutcomes :
        /\ fs' = WriteFile(fs, TempFile, o.out)
        /\ data' = o.out
        /\ clock' = clock + o.dur
    /\ pc' = "timed"
    /\ UNCHANGED <<range_it, relWeight, t1, parsed_data, filename, dirs,
                   log_file, parseVars, arg>>

\* t1, then the call of parse_data(data)
StartParse ==
    /\ pc = "timed"
    /\ t1' = clock
    /\ pc' = "parse_call"
    /\ UNCHANGED <<clock, range_it, relWeight, t0, command, data, parsed_data,
                   filename, fs, dirs, log_file, parseVars, arg>>

\* parsed_data = parse_data(data), then the file name
AssignParsed ==
    /\ pc = "parse_ret"
    /\ parsed_data' = Bound(p_parsed_data)
    /\ filename' = FileName(stage, relWeight)
    /\ pc' = "save_json"
    /\ UNCHANGED <<clock, range_it, relWeight, t0, t1, command, data, fs, dirs,
                   log_file, parseVars, arg>>

\* save_json(result_folder, parsed_data, filename)
DriverSaveJson ==
    /\ pc = "save_json"
    /\ save_json(result_folder, parsed_data.value, filename, "save_xlsx")
    /\ UNCHANGED <<clock, range_it, relWeight, t0, t1, command, data,
                   parsed_data, filename, log_file, parseVars, arg>>

\* save_xlsx(result_folder, parsed_data, filename)
DriverSaveXlsx ==
    /\ pc = "save_xlsx"
    /\ save_xlsx(result_folder, parsed_data.value, filename, "log")
    /\ UNCHANGED <<clock, range_it, relWeight, t0, t1, command, data,
                   parsed_data, filename, log_file, parseVars, arg>>

\* elapsedTime = t1 - t0, printed and written to the log
WriteLog ==
    /\ pc = "log"
    /\ log_file' = Append(log_file, LogLine(stage, t1 - t0))
    /\ pc' = "for"
    /\ UNCHANGED <<clock, range_it, relWeight, t0, t1, command, data,
                   parsed_data, filename, fs, dirs, parseVars, arg>>

\* log_file.close()
CloseLog ==
    /\ pc = "close"
    /\ pc' = "done"
    /\ UNCHANGED <<driverVars, parseVars, data, arg>>

\* a failure of the process or of the file system in the runner or in an
\* exporter is not caught: the sweep ends there
Fault ==
    /\ pc \in {"run", "save_json", "save_xlsx"}
    /\ pc' = "aborted"
    /\ UNCHANGED <<driverVars, parseVars, data, arg>>

Next ==
    \/ ForNext
    \/ ForExit
    \/ RunCommand
    \/ StartParse
    \/ ParseCall
    \/ ParseHeader
    \/ ParseSkip
    \/ ParseBlank
    \/ ParseRow
    \/ ParseReturn
    \/ AssignParsed
    \/ DriverSaveJson
    \/ DriverSaveXlsx
    \/ WriteLog
    \/ CloseLog
    \/ Fault

Spec == Init /\ [][Next]_vars

(* ---------------------------------------------------------------------- *)
(* Properties of parse_data                                               *)
(* ---------------------------------------------------------------------- *)
\* a sequence without its last element
Front(seq) == SubSeq(seq, 1, Len(seq) - 1)

\* the lines of a text: a final newline ends the last line, it starts none
TextLines(text) ==
    LET p == split(text, NL)
    IN IF p[Len(p)] = <<>> THEN Front(p) ELSE p

NumDelims(l) == Cardinality({ i \in 1..Len(l) : l[i] = BAR })

Terminated(l) == Len(l) > 0 /\ l[Len(l)] = BAR

HasMarker(text) ==
    \E k \in 1..Len(split(text, NL)) : Contains(split(text, NL)[k], ITER)

\* the first line of ls that contains the marker
FirstMarker(ls) ==
    CHOOSE h \in 1..Len(ls) :
        Contains(ls[h], ITER) /\ \A i \in 1..(h - 1) : ~Contains(ls[i], ITER)

\* lines without the marker, one header line of k >= 1 fields, then data
\* lines of exactly k fields each
WellFormed(text) ==
    LET ls == TextLines(text) IN
    \E h \in 1..Len(ls) :
        /\ \A i \in 1..(h - 1) : ~Contains(ls[i], ITER)
        /\ Contains(ls[h], ITER)
        /\ Terminated(ls[h])
        /\ \A i \in (h + 1)..Len(ls) :
            /\ ~Contains(ls[i], ITER)
            /\ Terminated(ls[i])
            /\ NumDelims(ls[i]) = NumDelims(ls[h])

HeaderWidth(text) ==
    LET ls == TextLines(text) IN NumDelims(ls[FirstMarker(ls)])

NumDataLines(text) ==
    LET ls == TextLines(text) IN Len(ls) - FirstMarker(ls)

\* the j-th piece of l between delimiters, counted from 1
RECURSIVE Segment(_, _)
Segment(l, j) ==
    LET cut == CHOOSE i \in 1..(Len(l) + 1) :
                   /\ i = Len(l) + 1 \/ l[i] = BAR
                   /\ \A q \in 1..(i - 1) : l[q] # BAR
    IN IF j = 1 THEN SubSeq(l, 1, cut - 1)
       ELSE Segment(SubSeq(l, cut + 1, Len(l)), j - 1)

NoSpaces(s) == SelectSeq(s, LAMBDA c : c # " ")

\* C1: for a well-formed text (lines without ITER, a header line with ITER
\* and k >= 1 fields each ended by `|`, then N data lines of exactly k such
\* fields), parse_data returns N+1 rows, the first is the header, and every
\* row has exactly k fields.
C1_WellFormedShape ==
    (pc = "parse_ret" /\ WellFormed(data)) =>
        LET k == HeaderWidth(data)
            ls == TextLines(data)
            h == FirstMarker(ls)
        IN /\ k >= 1
           /\ Len(p_parsed_data) = NumDataLines(data) + 1
           /\ \A r \in 1..Len(p_parsed_data) : Len(p_parsed_data[r]) = k
           /\ p_parsed_data[1] = [j \in 1..k |-> NoSpaces(Segment(ls[h], j))]

C1_Witness ==
    /\ pc = "parse_ret"
    /\ WellFormed(data)
    /\ HeaderWidth(data) >= 2
    /\ NumDataLines(data) >= 2
    /\ Len(p_parsed_data) = 3

RowAppended ==
    /\ pc \in {"parse_for", "parse_ret"}
    /\ li > 0
    /\ line = d_lines[li]
    /\ ~Contains(line, ITER)
    /\ ~skip
    /\ Len(i_data) > 0

\* the pieces of l that a delimiter ends
RawSegs(l) == Front(split(l, BAR))

Whitespace == {" ", "\t", "\n", "\r", "\f"}

RECURSIVE LStrip(_)
LStrip(s) ==
    IF Len(s) > 0 /\ s[1] \in Whitespace THEN LStrip(Tail(s)) ELSE s

RECURSIVE RStrip(_)
RStrip(s) ==
    IF Len(s) > 0 /\ s[Len(s)] \in Whitespace THEN RStrip(Front(s)) ELSE s

\* s.strip()
Strip(s) == LStrip(RStrip(s))

\* s without the prefix p, when it starts with p
RemovePrefix(s, p) ==
    IF Len(s) >= Len(p) /\ SubSeq(s, 1, Len(p)) = p
    THEN SubSeq(s, Len(p) + 1, Len(s))
    ELSE s

\* C3: every field of every retained data row is the raw segment between
\* the delimiters with its leading and trailing whitespace, of any kind,
\* removed and nothing else changed (the first field is compared after the
\* removal of `I:`, which the claim is not about).
C3_FieldsAreTrimmed ==
    RowAppended =>
        LET raw == RawSegs(line) IN
        /\ Len(i_data) = Len(raw)
        /\ i_data[1] = replace(Strip(raw[1]), IPREFIX, EMPTY)
        /\ \A j \in 2..Len(raw) : i_data[j] = Strip(raw[j])

\* C4: in every retained data row `I:` is removed only as a prefix of the
\* first field; `I:` elsewhere in the first field and in the other fields
\* stays.
C4_PrefixOnly ==
    RowAppended =>
        LET raw == RawSegs(line) IN
        /\ Len(i_data) = Len(raw)
        /\ i_data[1] = RemovePrefix(replace(raw[1], SPACE, EMPTY), IPREFIX)
        /\ \A j \in 2..Len(raw) : i_data[j] = replace(raw[j], SPACE, EMPTY)

EmptyRows(table) == { r \in 1..Len(table) : Len(table[r]) = 0 }

\* the lines read so far that hold the marker and no delimiter
BareMarkerLines ==
    { k \in 1..li : Contains(d_lines[k], ITER) /\ ~Contains(d_lines[k], <<BAR>>) }

\* C9 as stated: no row of the output of parse_data has zero fields.
C9_NoEmptyRow ==
    pc = "parse_ret" => EmptyRows(p_parsed_data) = {}

\* C9 amended: a line without the marker never produces a row of zero
\* fields, wherever it stands; the rows of zero fields are exactly those of
\* the marker lines that carry no `|`, one for each such line.
C9_EmptyRowsAreBareMarkers ==
    pc \in {"parse_for", "parse_ret"} =>
        /\ Cardinality(EmptyRows(p_parsed_data)) = Cardinality(BareMarkerLines)
        /\ RowAppended => Len(p_parsed_data[Len(p_parsed_data)]) > 0

C9_Witness ==
    /\ pc = "parse_ret"
    /\ Len(d_lines) = 3
    /\ d_lines[1] = ITER
    /\ d_lines[2] = <<>>
    /\ ~Contains(d_lines[3], ITER)
    /\ Len(p_parsed_data) = 2
    /\ Len(p_parsed_data[1]) = 0
    /\ Len(p_parsed_data[2]) > 0

\* the rows of the lines ls when each of them is read as a data line
RECURSIVE DataRows(_)
DataRows(ls) ==
    IF Len(ls) = 0 THEN <<>>
    ELSE LET row == Fields(ls[1]) IN
         IF Len(row) = 0 THEN DataRows(Tail(ls))
         ELSE <<[row EXCEPT ![1] = replace(row[1], IPREFIX, EMPTY)]>>
              \o DataRows(Tail(ls))

\* C10: only the first line with ITER is the header; the lines before it
\* are discarded and every later line that gives a field is a data row,
\* `I:` removed from its first field, in input order, also when that later
\* line holds ITER: the output has one header row, at index 0.
C10_OneHeader ==
    (pc = "parse_ret" /\ HasMarker(data)) =>
        LET h == FirstMarker(d_lines) IN
        p_parsed_data =
            <<Fields(d_lines[h])>> \o DataRows(SubSeq(d_lines, h + 1, Len(d_lines)))

(* ---------------------------------------------------------------------- *)
(* Properties of the exporters                                            *)
(* ---------------------------------------------------------------------- *)
\* the character an escape stands for
Unescape(c) ==
    CASE c = "n" -> "\n"
      [] c = "r" -> "\r"
      [] c = "t" -> "\t"
      [] OTHER -> c

\* reads a JSON string whose opening quote is behind: its value and the
\* text after its closing quote
RECURSIVE ReadStr(_, _)
ReadStr(s, acc) ==
    IF s[1] = "\"" THEN [val |-> acc, rest |-> Tail(s)]
    ELSE IF s[1] = "\\"
         THEN ReadStr(SubSeq(s, 3, Len(s)), Append(acc, Unescape(s[2])))
         ELSE ReadStr(Tail(s), Append(acc, s[1]))

\* the text after an item: behind the ", " that follows it, if any
AfterItem(s) == IF Len(s) > 0 /\ s[1] = "," THEN SubSeq(s, 3, Len(s)) ELSE s

\* reads the strings of a JSON array whose opening bracket is behind
RECURSIVE ReadRow(_, _)
ReadRow(s, acc) ==
    IF s[1] = "]" THEN [val |-> acc, rest |-> Tail(s)]
    ELSE LET str == ReadStr(Tail(s), <<>>)
         IN ReadRow(AfterItem(str.rest), Append(acc, str.val))

\* reads the arrays of a JSON array whose opening bracket is behind
RECURSIVE ReadTable(_, _)
ReadTable(s, acc) ==
    IF s[1] = "]" THEN [val |-> acc, rest |-> Tail(s)]
    ELSE LET row == ReadRow(Tail(s), <<>>)
         IN ReadTable(AfterItem(row.rest), Append(acc, row.val))

\* json.loads of an array of arrays of strings; an empty document holds none
json_loads(text) ==
    IF Len(text) = 0 THEN Undefined ELSE Bound(ReadTable(Tail(text), <<>>).val)

\* C5: whatever the other variables of the program hold, the document that
\* save_json wrote for the table it was given, read back, is that table.
C5_JsonRoundTrip ==
    pc = "json_ret" =>
        json_loads(fs[json_path(result_folder, filename)]) = Bound(arg)

Letters == <<"A", "B", "C", "D", "E", "F", "G", "H", "I", "J", "K", "L", "M", "N", "O", "P", "Q", "R", "S", "T", "U", "V", "W", "X", "Y", "Z">>

\* the cell of row i, column j, both counted from 0
ExpectedCell(i, j) == <<Letters[j + 1]>> \o Decimal(i + 1)

Narrow(table) == \A r \in 1..Len(table) : Len(table[r]) <= 26

\* C6: for a table whose rows have at most 26 fields, save_xlsx writes the
\* field of row i, column j (from 0) to the cell of the j-th capital letter
\* and row number i+1; distinct positions get distinct cells, and no other
\* cell is written.
C6_CellAddressing ==
    (pc # "call_save_xlsx" /\ Narrow(arg)) =>
        /\ pc = "xlsx_ret"
        /\ LET ws == fs[xlsx_path(result_folder, filename)] IN
            /\ DOMAIN ws = { ExpectedCell(p[1], p[2]) : p \in Positions(arg) }
            /\ Cardinality(DOMAIN ws) = Cardinality(Positions(arg))
            /\ \A p \in Positions(arg) :
                   ws[ExpectedCell(p[1], p[2])] = arg[p[1] + 1][p[2] + 1]

C6_Witness ==
    /\ pc = "xlsx_ret"
    /\ Len(arg) >= 3
    /\ Len(arg[3]) >= 2
    /\ arg[3][2] # arg[1][1]
    /\ fs[xlsx_path(result_folder, filename)][<<"A", "1">>] = arg[1][1]
    /\ fs[xlsx_path(result_folder, filename)][<<"B", "3">>] = arg[3][2]

(* ---------------------------------------------------------------------- *)
(* Properties of the sweep                                                *)
(* ---------------------------------------------------------------------- *)
NumValues == (RangeStop - RangeStart + RangeStep - 1) \div RangeStep

\* the k-th value of the sweep, k counted from 0
ValueAt(k) == RangeStart + RangeStep * k

\* the steps that wrote their log line
Completed == Len(log_file)

InStep ==
    pc \in {"run", "timed", "parse_call", "parse_for", "parse_ret",
            "save_json", "save_xlsx", "log"}

JsonOf(v) == json_path(result_folder, FileName(stage, v))
XlsxOf(v) == xlsx_path(result_folder, FileName(stage, v))

DoneValues == { ValueAt(k) : k \in 0..(Completed - 1) }
WithJson == DoneValues \cup (IF pc \in {"save_xlsx", "log"} THEN {relWeight} ELSE {})
WithXlsx == DoneValues \cup (IF pc = "log" THEN {relWeight} ELSE {})

Artifacts == (DOMAIN fs) \ {TempFile}

\* C7: the steps take the values 10, 20, ..., 100 in order, a step starts
\* only when the log line of the one before is written; in a step the
\* output of the one run is parsed, one JSON and one spreadsheet artifact
\* are written from that table, and only then the log line; a table
\* without rows stops nothing; a sweep without failure ends with one log
\* line and two artifacts for each value.
C7_SweepSteps ==
    /\ Completed <= NumValues
    /\ InStep => relWeight = ValueAt(Completed)
    /\ pc = "for" => range_it = ValueAt(Completed)
    /\ pc # "aborted" =>
        /\ Artifacts = { JsonOf(v) : v \in WithJson } \cup { XlsxOf(v) : v \in WithXlsx }
        /\ Cardinality(Artifacts) = Cardinality(WithJson) + Cardinality(WithXlsx)
    /\ pc \in {"save_json", "save_xlsx", "log"} =>
        /\ fs[TempFile] = data
        /\ d_lines = split(data, NL)
        /\ parsed_data = Bound(p_parsed_data)
    /\ pc \in {"save_xlsx", "log"} =>
        fs[JsonOf(relWeight)] = json_dumps(p_parsed_data)
    /\ pc = "log" => fs[XlsxOf(relWeight)] = Worksheet(p_parsed_data)
    /\ pc \in {"close", "done"} =>
        /\ Completed = NumValues
        /\ Cardinality(Artifacts) = 2 * NumValues

C7_Witness ==
    /\ pc = "done"
    /\ Len(log_file) = 10
    /\ fs[JsonOf(10)] = <<"[", "]">>
    /\ fs[JsonOf(20)] # <<"[", "]">>
    /\ XlsxOf(100) \in DOMAIN fs

\* C8: when run_command has returned, temp.pipefile is removed: no step of
\* the sweep starts with a scratch file of an earlier one on disk.
C8_ScratchRemoved ==
    pc \in {"timed", "for"} => TempFile \notin DOMAIN fs

====
